---------------------------- MODULE Spec2Model ----------------------------
(***************************************************************************)
(* A model of the multi-label image classification inference/evaluation    *)
(* pipeline: the dataset cache (utils/dataset/datasetutils.py), the         *)
(* evaluator (utils/evaluation/modelevaluator.py), the visualization sink   *)
(* (utils/tensorboard/tensorboardwriter.py) and the inference driver        *)
(* (inference.py).                                                          *)
(*                                                                         *)
(* Each component has its own specification over its own variables:        *)
(*   SpecCache  the dataset cache and the tag mapping                      *)
(*   SpecEval   predict / evaluate_predictions / evaluate                  *)
(*   SpecSink   the TensorBoardWriter and the evaluators' with-scopes      *)
(*   SpecMain   the inference driver's main                                *)
(* The variables of the other components stay at their idle value.         *)
(***************************************************************************)
EXTENDS Integers, Sequences, FiniteSets, TLC

VARIABLES
    \* ---- dataset cache (datasetutils.py) ----
    dataset_csv,    \* the module global: <<>> (None) or <<the cached table>>
    disk,           \* dataset path -> header row of the label file, or Missing
    reads,          \* the paths pd.read_csv has returned a table for, in order
    handedOut,      \* history: every table object an entry point has worked on
    cacheResult,    \* what the last entry-point call returned (or raised)
    cacheCrashed,   \* an uncaught FileNotFoundError has ended the process
    \* ---- visualization sink (tensorboardwriter.py) and evaluator scopes ----
    writer,         \* TensorBoardWriter.writer: <<>> (None) or <<the handle>>
    backendOpen,    \* the SummaryWriter has not been closed
    closeCalls,     \* how many times SummaryWriter.close() has been invoked
    backendLog,     \* the events forwarded to the SummaryWriter, in order
    scope,          \* evaluator -> "out" or "in" (inside its with-block)
    sinkResult,     \* the last sink / scope operation and its outcome
    \* ---- evaluator (modelevaluator.py) ----
    self,           \* the evaluator: its config and its tensorBoardWriter
    data_loader,    \* the data source: dataset, batch_size, shuffle
    evalPc,         \* "ready" before the call under study, "done" after it
    evalArgs,       \* the arguments and the random draws of that call
    evalResult,     \* what the call returned (or raised)
    \* ---- inference driver (inference.py) ----
    input,          \* args.input_path on disk: kind, name, directory listing
    checkpoints,    \* checkpoint path -> <<>> (no file) or <<epochs stored>>
    outputFolder,   \* args.output_folder on disk: "absent", "dir" or "file"
    mainPc,         \* main's position
    mainTrace,      \* history: the steps main has run, in order
    modelEvaluator, \* main's evaluator: <<>> (unbound) or <<the evaluator>>
    adapterPaths,   \* <<>> or <<the paths handed to ImageDatasetPredict>>
    batchesPredicted, \* batches run through the model
    saved,          \* the output media written, in order
    printed,        \* the messages printed to the user
    mainError       \* the exception main ended with

cacheVars == <<dataset_csv, disk, reads, handedOut, cacheResult, cacheCrashed>>
sinkVars == <<writer, backendOpen, closeCalls, backendLog, scope, sinkResult>>

evalVars == <<self, data_loader, evalPc, evalArgs, evalResult>>

mainVars == <<input, checkpoints, outputFolder, mainPc, mainTrace,
              modelEvaluator, adapterPaths, batchesPredicted, saved, printed,
              mainError>>

vars == <<cacheVars, sinkVars, evalVars, mainVars>>

\* Python's None where a string is expected (exception types, tags).
None == "None"
\* An optional object is a sequence of at most one element: <<>> is None.
NoObject == <<>>
Some(x) == <<x>>
\* A label file that is not on disk has no header row.
Missing == <<>>

(***************************************************************************)
(* Bounds of the model.                                                    *)
(***************************************************************************)
MaxCols == 3        \* longest header row of a label file (path column included)
MaxEvents == 4      \* most events the visualization backend is sent in one run
MaxSamples == 3     \* most samples in a data source
MaxBatch == 2       \* largest batch_size of a DataLoader
MaxEntries == 2     \* most entries in an input directory

(***************************************************************************)
(* Configuration objects.  config is the process-wide settings object of   *)
(* src/config; other_config is a second configuration a caller may pass.   *)
(***************************************************************************)
config ==
    [name |-> "config", model_name |-> "resnet", num_classes |-> 2,
     model_weights |-> "DEFAULT", batch_size |-> 2,
     dataset_path |-> "data/a.csv", model_to_load |-> "models/resnet_best.pth"]

other_config ==
    [name |-> "other_config", model_name |-> "vit", num_classes |-> 3,
     model_weights |-> "IMAGENET", batch_size |-> 1,
     dataset_path |-> "data/b.csv", model_to_load |-> "models/vit_best.pth"]

Configs == {config, other_config}

\* pathutils.get_dataset_path(config): the configured label file.
get_dataset_path(cfg) == cfg.dataset_path

DatasetPaths == {get_dataset_path(c) : c \in Configs}

(***************************************************************************)
(* Label files: a header row of distinct column names, the path column     *)
(* first.  (pandas de-duplicates header names when it reads a file.)       *)
(***************************************************************************)
ColumnNames == {"path", "cat", "dog", "bird"}

IsInjective(s) == \A i, j \in DOMAIN s : s[i] = s[j] => i = j

Headers ==
    UNION {{s \in [1..n -> ColumnNames] : IsInjective(s)} : n \in 1..MaxCols}

\* pd.read_csv(path): a fresh table object (identified by the count of reads
\* that came before it), or FileNotFoundError when the file is missing.
read_csv(path, d, nReads) ==
    IF d[path] = Missing
    THEN [raised |-> "FileNotFoundError", table |-> NoObject]
    ELSE [raised |-> None,
          table |-> Some([id |-> nReads + 1, path |-> path,
                          columns |-> d[path]])]

(***************************************************************************)
(* __get_dataset_csv(config): reads the file only when the global is None. *)
(* Returns the outcome: the table, whether the disk was read, an exception. *)
(***************************************************************************)
get_dataset_csv_always_reads(cache, cfg, d, nReads) ==
    LET r == read_csv(get_dataset_path(cfg), d, nReads)
    IN  [raised |-> r.raised, table |-> r.table, read |-> r.raised = None]

get_dataset_csv(cache, cfg, d, nReads) ==
    IF cache = NoObject
    THEN LET r == read_csv(get_dataset_path(cfg), d, nReads)
         IN  [raised |-> r.raised, table |-> r.table, read |-> r.raised = None]
    ELSE [raised |-> None, table |-> cache, read |-> FALSE]

(***************************************************************************)
(* __get_index_to_tag_mapping(csv): enumerate(csv.columns[1:]).            *)
(***************************************************************************)
get_index_to_tag_mapping_all_columns(csv) ==
    [index \in 0..(Len(csv.columns) - 1) |-> csv.columns[index + 1]]

get_index_to_tag_mapping(csv) ==
    LET tag_columns == Tail(csv.columns)
    IN  [index \in 0..(Len(tag_columns) - 1) |-> tag_columns[index + 1]]

\* DataLoader(ImageDataset(dataset_csv, mode, config), batch_size, shuffle)
ImageDataLoader(csv, mode, cfg, shuffle) ==
    [table |-> csv.id, mode |-> mode, batch_size |-> cfg.batch_size,
     shuffle |-> shuffle]

Modes == {"train", "valid", "test"}

(***************************************************************************)
(* The three entry points.  Each one runs                                  *)
(*     global dataset_csv; dataset_csv = __get_dataset_csv(config)         *)
(* and then builds its own result from the table.  A FileNotFoundError is  *)
(* not caught by any caller: it ends the process.                          *)
(***************************************************************************)
Raised(op, cfg, r) ==
    /\ cacheCrashed' = TRUE
    /\ cacheResult' = [op |-> op, cfg |-> cfg.name, raised |-> r.raised,
                       value |-> None]
    /\ UNCHANGED <<dataset_csv, reads, handedOut, disk>>

Returned(op, cfg, r, value) ==
    /\ dataset_csv' = r.table
    /\ reads' = IF r.read THEN Append(reads, get_dataset_path(cfg)) ELSE reads
    /\ handedOut' = handedOut \cup {r.table[1]}
    /\ cacheResult' = [op |-> op, cfg |-> cfg.name, raised |-> None,
                       value |-> value]
    /\ UNCHANGED <<cacheCrashed, disk>>

get_train_valid_test_loaders ==
    /\ ~cacheCrashed
    /\ UNCHANGED <<sinkVars, evalVars, mainVars>>
    /\ \E cfg \in Configs :
        LET r == get_dataset_csv(dataset_csv, cfg, disk, Len(reads))
        IN  IF r.raised # None
            THEN Raised("get_train_valid_test_loaders", cfg, r)
            ELSE Returned("get_train_valid_test_loaders", cfg, r,
                     <<ImageDataLoader(r.table[1], "train", cfg, TRUE),
                       ImageDataLoader(r.table[1], "valid", cfg, FALSE),
                       ImageDataLoader(r.table[1], "test", cfg, FALSE)>>)

get_data_loader_by_name ==
    /\ ~cacheCrashed
    /\ UNCHANGED <<sinkVars, evalVars, mainVars>>
    /\ \E cfg \in Configs, mode \in Modes, shuffle \in BOOLEAN :
        LET r == get_dataset_csv(dataset_csv, cfg, disk, Len(reads))
        IN  IF r.raised # None
            THEN Raised("get_data_loader_by_name", cfg, r)
            ELSE Returned("get_data_loader_by_name", cfg, r,
                     ImageDataLoader(r.table[1], mode, cfg, shuffle))

get_dataset_tag_mappings ==
    /\ ~cacheCrashed
    /\ UNCHANGED <<sinkVars, evalVars, mainVars>>
    /\ \E cfg \in Configs :
        LET r == get_dataset_csv(dataset_csv, cfg, disk, Len(reads))
        IN  IF r.raised # None
            THEN Raised("get_dataset_tag_mappings", cfg, r)
            ELSE Returned("get_dataset_tag_mappings", cfg, r,
                     [table |-> r.table[1].id,
                      columns |-> r.table[1].columns,
                      mapping |-> get_index_to_tag_mapping(r.table[1])])

\* The module as imported: nothing cached yet.
CacheEmpty ==
    /\ dataset_csv = NoObject
    /\ reads = <<>>
    /\ handedOut = {}
    /\ cacheResult = [op |-> None, cfg |-> None, raised |-> None, value |-> None]
    /\ cacheCrashed = FALSE

\* The sink as constructed: SummaryWriter(log_dir) is open, nothing sent.
SinkConstructed ==
    /\ writer = Some("SummaryWriter")
    /\ backendOpen = TRUE
    /\ closeCalls = 0
    /\ backendLog = <<>>
    /\ scope = [e \in {"from_file", "from_file_no_sink", "from_trainer"} |-> "out"]
    /\ sinkResult = [op |-> None, evaluator |-> None, raised |-> None,
                     noop |-> FALSE, exceptional |-> FALSE]

\* No evaluator call is under study.
EvalIdle ==
    /\ self = [config |-> config.name, tensorBoardWriter |-> NoObject]
    /\ data_loader = [dataset |-> <<>>, batch_size |-> 1, shuffle |-> FALSE]
    /\ evalPc = "idle"
    /\ evalArgs = [op |-> None]
    /\ evalResult = [op |-> None, raised |-> None]

\* The inference driver is not running.
MainIdle ==
    /\ input = [kind |-> "none", name |-> <<>>, listing |-> <<>>]
    /\ checkpoints = [p \in {config.model_to_load, other_config.model_to_load} |-> NoObject]
    /\ outputFolder = "absent"
    /\ mainPc = "idle"
    /\ mainTrace = <<>>
    /\ modelEvaluator = NoObject
    /\ adapterPaths = NoObject
    /\ batchesPredicted = 0
    /\ saved = <<>>
    /\ printed = <<>>
    /\ mainError = [type |-> None, path |-> None]

InitCache ==
    /\ CacheEmpty
    /\ disk \in [DatasetPaths -> Headers \cup {Missing}]
    /\ SinkConstructed
    /\ EvalIdle
    /\ MainIdle

NextCache ==
    \/ get_train_valid_test_loaders
    \/ get_data_loader_by_name
    \/ get_dataset_tag_mappings

SpecCache == InitCache /\ [][NextCache]_vars


(***************************************************************************)
(* The visualization sink (TensorBoardWriter) and the evaluators that hold *)
(* it.  from_file carries the sink it was given, from_file_no_sink was     *)
(* built with tensorBoardWriter=None, from_trainer shares the trainer's    *)
(* sink, which is the same TensorBoardWriter object.                       *)
(***************************************************************************)
Evaluators == {"from_file", "from_file_no_sink", "from_trainer"}

\* self.tensorBoardWriter of an evaluator: the one sink, or None.
tensorBoardWriter(e) ==
    IF e = "from_file_no_sink" THEN NoObject ELSE Some("TensorBoardWriter")

\* TensorBoardWriter.close_writer: the new handle and the close() calls made.
close_writer_keeps_handle(w) ==
    IF w # NoObject
    THEN [writer |-> w, closes |-> 1]
    ELSE [writer |-> w, closes |-> 0]

close_writer(w) ==
    IF w # NoObject
    THEN [writer |-> NoObject, closes |-> 1]
    ELSE [writer |-> w, closes |-> 0]

\* ModelEvaluator.__exit__: closes the sink's writer when there is a sink.
evaluator_exit(e, w) ==
    IF tensorBoardWriter(e) # NoObject
    THEN close_writer(w)
    ELSE [writer |-> w, closes |-> 0]

\* self.writer.<method>(...): None has no such attribute.
forward_ignores_closed_writer(w, log, events) ==
    [raised |-> None, log |-> log \o events]

forward(w, log, events) ==
    IF w = NoObject
    THEN [raised |-> "AttributeError", log |-> log]
    ELSE [raised |-> None, log |-> log \o events]

SinkOutcome(op, e, raised, noop, exceptional) ==
    [op |-> op, evaluator |-> e, raised |-> raised, noop |-> noop,
     exceptional |-> exceptional]

CloseWriter ==
    /\ ~cacheCrashed
    /\ LET c == close_writer(writer)
       IN  /\ writer' = c.writer
           /\ closeCalls' = closeCalls + c.closes
           /\ backendOpen' = (backendOpen /\ c.closes = 0)
           /\ sinkResult' = SinkOutcome("close_writer", None, None,
                                        c.closes = 0, FALSE)
    /\ UNCHANGED <<backendLog, scope, cacheVars, evalVars, mainVars>>

\* with evaluator: ...   (__enter__ returns self)
EvaluatorEnter ==
    /\ ~cacheCrashed
    /\ \E e \in Evaluators :
        /\ scope[e] = "out"
        /\ scope' = [scope EXCEPT ![e] = "in"]
        /\ sinkResult' = SinkOutcome("__enter__", e, None, FALSE, FALSE)
    /\ UNCHANGED <<writer, backendOpen, closeCalls, backendLog, cacheVars, evalVars, mainVars>>

\* The with-block is left, normally or by an exception passing through it
\* (also the uncaught FileNotFoundError of the dataset cache); __exit__
\* returns None, so the exception goes on.
EvaluatorExit ==
    \E e \in Evaluators, exceptional \in BOOLEAN :
        /\ scope[e] = "in"
        /\ cacheCrashed => exceptional
        /\ LET c == evaluator_exit(e, writer)
           IN  /\ writer' = c.writer
               /\ closeCalls' = closeCalls + c.closes
               /\ backendOpen' = (backendOpen /\ c.closes = 0)
               /\ sinkResult' = SinkOutcome("__exit__", e, None,
                                            c.closes = 0, exceptional)
        /\ scope' = [scope EXCEPT ![e] = "out"]
        /\ UNCHANGED <<backendLog, cacheVars, evalVars, mainVars>>

\* add_scalar, add_histogram, add_images, add_hparams: one event each.
SinkAdd ==
    /\ ~cacheCrashed
    /\ Len(backendLog) < MaxEvents
    /\ \E op \in {"add_scalar", "add_histogram", "add_images", "add_hparams"} :
        LET f == forward(writer, backendLog, <<op>>)
        IN  /\ backendLog' = f.log
            /\ sinkResult' = SinkOutcome(op, None, f.raised, FALSE, FALSE)
    /\ UNCHANGED <<writer, backendOpen, closeCalls, scope, cacheVars, evalVars, mainVars>>

\* write_image_test_results: the tag mapping of self.config is looked up
\* (through the dataset cache), then four image streams are added.  env is
\* the state it runs in; the result is its outcome and the state it leaves.
write_image_test_results(env, call) ==
    LET r == get_dataset_csv(env.dataset_csv, config, env.disk, env.nReads)
        f == forward(env.writer, env.log,
                     <<"add_images", "add_images", "add_images", "add_images">>)
    IN  [raised |-> IF r.raised # None THEN r.raised ELSE f.raised,
         cache |-> r,
         log |-> IF r.raised # None THEN env.log ELSE f.log]

\* The state write_image_test_results is called in.
SinkEnv ==
    [writer |-> writer, log |-> backendLog, dataset_csv |-> dataset_csv,
     disk |-> disk, nReads |-> Len(reads)]

\* The state change of a write_image_test_results call with outcome w.
SinkWritten(w) ==
    /\ IF w.cache.raised # None
       THEN Raised("get_dataset_tag_mappings", config, w.cache)
       ELSE Returned("get_dataset_tag_mappings", config, w.cache,
                [table |-> w.cache.table[1].id,
                 columns |-> w.cache.table[1].columns,
                 mapping |-> get_index_to_tag_mapping(w.cache.table[1])])
    /\ backendLog' = w.log
    /\ sinkResult' = SinkOutcome("write_image_test_results", None, w.raised,
                                 FALSE, FALSE)
    /\ UNCHANGED <<writer, backendOpen, closeCalls, scope>>

WriteImageTestResults ==
    /\ ~cacheCrashed
    /\ Len(backendLog) + 4 <= MaxEvents
    /\ SinkWritten(write_image_test_results(SinkEnv, None))
    /\ UNCHANGED <<evalVars, mainVars>>

InitSink ==
    /\ CacheEmpty
    /\ disk \in [DatasetPaths -> {Missing, <<"path", "cat", "dog">>}]
    /\ SinkConstructed
    /\ EvalIdle
    /\ MainIdle

NextSink ==
    \/ CloseWriter
    \/ EvaluatorEnter
    \/ EvaluatorExit
    \/ SinkAdd
    \/ WriteImageTestResults

SpecSink == InitSink /\ [][NextSink]_vars

(***************************************************************************)
(* Exact arithmetic for losses and metrics: a non-negative rational is a   *)
(* record [n, d] in lowest terms.                                          *)
(***************************************************************************)
RECURSIVE GCD(_, _)
GCD(a, b) == IF b = 0 THEN a ELSE GCD(b, a % b)

Rat(n, d) == IF n = 0 THEN [n |-> 0, d |-> 1]
             ELSE [n |-> n \div GCD(n, d), d |-> d \div GCD(n, d)]

RAdd(a, b) == Rat(a.n * b.d + b.n * a.d, a.d * b.d)
RMul(a, b) == Rat(a.n * b.n, a.d * b.d)
\* a / b for b # 0
RDiv(a, b) == Rat(a.n * b.d, a.d * b.n)

RECURSIVE RSum(_)
RSum(seq) == IF seq = <<>> THEN Rat(0, 1) ELSE RAdd(Head(seq), RSum(Tail(seq)))

RECURSIVE Sum(_)
Sum(seq) == IF seq = <<>> THEN 0 ELSE Head(seq) + Sum(Tail(seq))

RECURSIVE Flatten(_)
Flatten(seqs) == IF seqs = <<>> THEN <<>> ELSE Head(seqs) \o Flatten(Tail(seqs))

Min(a, b) == IF a <= b THEN a ELSE b

(***************************************************************************)
(* Samples, the model and the data source.                                 *)
(***************************************************************************)
\* The samples a dataset is drawn from: an image and its multi-hot label.
Samples ==
    {[image |-> "img1", label |-> <<1, 0>>],
     [image |-> "img2", label |-> <<0, 1>>]}

\* self.model(images), one row of raw scores (logits) per image.
model(image) ==
    CASE image = "img1" -> <<2, -1>>
      [] image = "img2" -> <<1, 0>>

\* 1000 * log(1 + exp(x)), rounded, for the scores the model gives.
SoftplusMilli(x) ==
    CASE x = -2 -> 127
      [] x = -1 -> 313
      [] x = 0 -> 693
      [] x = 1 -> 1313
      [] x = 2 -> 2127

\* Binary cross-entropy with logits of one score against one target bit.
ElementLoss(x, y) == IF y = 1 THEN SoftplusMilli(0 - x) ELSE SoftplusMilli(x)

\* The criterion with reduction='sum': the sum over every element.
SampleLoss(sample) ==
    Sum([c \in 1..Len(sample.label) |->
            ElementLoss(model(sample.image)[c], sample.label[c])])

\* nn.BCEWithLogitsLoss(), as from_file builds it: the default reduction is
\* 'mean', the mean over every element (sample and class) of the batch.
criterion(batch) ==
    Rat(Sum([i \in 1..Len(batch) |-> SampleLoss(batch[i])]),
        Len(batch) * Len(batch[1].label))

\* len(data_loader): the number of batches (drop_last is False).
NumBatches(dl) == (Len(dl.dataset) + dl.batch_size - 1) \div dl.batch_size

Count(seq, x) == Cardinality({i \in DOMAIN seq : seq[i] = x})

\* One pass over the DataLoader: the dataset's order, or with shuffle=True
\* any permutation of it (a fresh one for every pass).
IterationOrders(dl) ==
    IF dl.shuffle
    THEN {o \in [1..Len(dl.dataset) -> Samples] :
             \A x \in Samples : Count(o, x) = Count(dl.dataset, x)}
    ELSE {dl.dataset}

\* The batches of a pass that visits the samples in the given order.
Batches(dl, order) ==
    [b \in 1..NumBatches(dl) |->
        SubSeq(order, (b - 1) * dl.batch_size + 1,
               Min(b * dl.batch_size, Len(order)))]

(***************************************************************************)
(* ModelEvaluator.predict(data_loader), for a pass in the given order.     *)
(***************************************************************************)
Outcome(raised, value) == [raised |-> raised, value |-> value]

predict(evaluator, dl, order) ==
    LET batches == Batches(dl, order)
        \* the loop: one entry per batch
        losses == [b \in DOMAIN batches |-> criterion(batches[b])]
        outputs == [b \in DOMAIN batches |->
                      [i \in DOMAIN batches[b] |-> model(batches[b][i].image)]]
        labels == [b \in DOMAIN batches |->
                      [i \in DOMAIN batches[b] |-> batches[b][i].label]]
        total_loss == RSum(losses)
    IN  IF batches = <<>>
        THEN \* np.vstack([]): need at least one array to concatenate
             Outcome("ValueError", None)
        ELSE IF Len(dl.dataset) = 0
        THEN Outcome("ZeroDivisionError", None)
        ELSE Outcome(None,
                 [prediction_labels |-> Flatten(outputs),
                  true_labels |-> Flatten(labels),
                  avg_loss |-> RDiv(total_loss, Rat(Len(dl.dataset), 1))])

(***************************************************************************)
(* metricutils (not part of the sources at hand): sigmoid, then compare    *)
(* to the threshold; precision, recall and F1 from the per-class counts.   *)
(***************************************************************************)
\* 100 * sigmoid(x), rounded, for the scores the model gives.
SigmoidPercent(x) ==
    CASE x = -2 -> 12
      [] x = -1 -> 27
      [] x = 0 -> 50
      [] x = 1 -> 73
      [] x = 2 -> 88

\* The thresholds a caller passes, in percent; None is the configured one.
ConfiguredThreshold == 50
Thresholds == {NoObject, Some(75)}

getpredictions_with_threshold(outputs, threshold) ==
    LET t == IF threshold = NoObject THEN ConfiguredThreshold ELSE threshold[1]
    IN  [i \in DOMAIN outputs |->
            [c \in DOMAIN outputs[i] |->
                IF SigmoidPercent(outputs[i][c]) > t THEN 1 ELSE 0]]

\* n / d, and 0 when d = 0 (zero_division)
Ratio(n, d) == IF d = 0 THEN Rat(0, 1) ELSE Rat(n, d)

compute_metrics(true_labels, predictions, threshold, average) ==
    LET classes == 1..config.num_classes
        rows == DOMAIN true_labels
        tp(c) == Cardinality({i \in rows :
                     predictions[i][c] = 1 /\ true_labels[i][c] = 1})
        fp(c) == Cardinality({i \in rows :
                     predictions[i][c] = 1 /\ true_labels[i][c] = 0})
        fn(c) == Cardinality({i \in rows :
                     predictions[i][c] = 0 /\ true_labels[i][c] = 1})
        TP == Sum([c \in classes |-> tp(c)])
        FP == Sum([c \in classes |-> fp(c)])
        FN == Sum([c \in classes |-> fn(c)])
        P == [c \in classes |-> Ratio(tp(c), tp(c) + fp(c))]
        R == [c \in classes |-> Ratio(tp(c), tp(c) + fn(c))]
        F == [c \in classes |-> Ratio(2 * tp(c), 2 * tp(c) + fp(c) + fn(c))]
        Mean(v) == RDiv(RSum(v), Rat(Len(v), 1))
    IN  CASE average = "micro" ->
               [raised |-> None, precision |-> Ratio(TP, TP + FP),
                recall |-> Ratio(TP, TP + FN),
                f1 |-> Ratio(2 * TP, 2 * TP + FP + FN)]
          [] average = "macro" ->
               [raised |-> None, precision |-> Mean(P), recall |-> Mean(R),
                f1 |-> Mean(F)]
          [] average = None ->
               [raised |-> None, precision |-> [per_class |-> P],
                recall |-> [per_class |-> R], f1 |-> [per_class |-> F]]
          [] OTHER ->
               [raised |-> "ValueError", precision |-> None, recall |-> None,
                f1 |-> None]

(***************************************************************************)
(* ModelEvaluator.evaluate_predictions.  rnd holds the draws of the call:  *)
(* rnd.index is random.randint(0, len(data_loader) - 1) and rnd.order the  *)
(* order of the pass that itertools.islice(data_loader, ...) starts.       *)
(***************************************************************************)
EvalOutcome(raised, value, sinkCall) ==
    [raised |-> raised, value |-> value, sinkCall |-> sinkCall]

evaluate_predictions(evaluator, env, dl, prediction_outputs, true_labels, epoch, datasetSubset, average, metricMode, threshold, rnd) ==
    LET predictions_binary ==
            getpredictions_with_threshold(prediction_outputs, threshold)
        m == compute_metrics(true_labels, predictions_binary, threshold,
                             average)
        random_batch_index == rnd.index
        batch_dict == Batches(dl, rnd.order)[random_batch_index + 1]
        start_index == random_batch_index * dl.batch_size
        end_index == Min((random_batch_index + 1) * dl.batch_size,
                         Len(predictions_binary))
        selected_predictions ==
            SubSeq(predictions_binary, start_index + 1, end_index)
        call == [images |-> [i \in DOMAIN batch_dict |-> batch_dict[i].image],
                 true_labels |-> [i \in DOMAIN batch_dict |->
                                     batch_dict[i].label],
                 predictions |-> selected_predictions,
                 step |-> epoch, runmode |-> metricMode,
                 dataSubset |-> datasetSubset]
    IN  IF m.raised # None
        THEN EvalOutcome(m.raised, None, NoObject)
        ELSE IF metricMode # None /\ evaluator.tensorBoardWriter # NoObject
        THEN IF NumBatches(dl) = 0
             THEN \* random.randint(0, -1): empty range
                  EvalOutcome("ValueError", None, NoObject)
             ELSE IF write_image_test_results(env, call).raised # None
             THEN EvalOutcome(write_image_test_results(env, call).raised,
                              None, Some(call))
             ELSE EvalOutcome(None, <<m.f1, m.precision, m.recall>>,
                              Some(call))
        ELSE EvalOutcome(None, <<m.f1, m.precision, m.recall>>, NoObject)

(***************************************************************************)
(* ModelEvaluator.evaluate: predict, then evaluate_predictions.            *)
(***************************************************************************)
evaluate_metricMode_for_average(evaluator, env, dl, epoch, datasetSubset, metricMode, average, threshold, rnd) ==
    LET p == predict(evaluator, dl, rnd.predict_order)
        ep == evaluate_predictions(evaluator, env, dl,
                  p.value.prediction_labels, p.value.true_labels, epoch,
                  datasetSubset, metricMode, average, threshold, rnd)
    IN  IF p.raised # None THEN EvalOutcome(p.raised, None, NoObject)
        ELSE IF ep.raised # None THEN ep
        ELSE EvalOutcome(None, <<p.value.avg_loss, ep.value[1], ep.value[2],
                                 ep.value[3]>>, ep.sinkCall)

evaluate(evaluator, env, dl, epoch, datasetSubset, metricMode, average, threshold, rnd) ==
    LET p == predict(evaluator, dl, rnd.predict_order)
        ep == evaluate_predictions(evaluator, env, dl,
                  p.value.prediction_labels, p.value.true_labels, epoch,
                  datasetSubset, average, metricMode, threshold, rnd)
    IN  IF p.raised # None THEN EvalOutcome(p.raised, None, NoObject)
        ELSE IF ep.raised # None THEN ep
        ELSE EvalOutcome(None, <<p.value.avg_loss, ep.value[1], ep.value[2],
                                 ep.value[3]>>, ep.sinkCall)

(***************************************************************************)
(* The evaluator's calls under study: one call of predict or of evaluate   *)
(* on a data source and an evaluator drawn by InitEval.                    *)
(***************************************************************************)
Datasets == UNION {[1..n -> Samples] : n \in 0..MaxSamples}

DataLoaders ==
    [dataset : Datasets, batch_size : 1..MaxBatch, shuffle : BOOLEAN]

Epochs == {1, 2}
DatasetSubsets == {"Validation"}
MetricModes == {None, "Test"}
Averages == {"micro", "macro", None}

\* Whether evaluate_predictions goes on to the visualization branch.
Visualizes(evaluator, metricMode) ==
    metricMode # None /\ evaluator.tensorBoardWriter # NoObject

\* The draw random.randint(0, len(data_loader) - 1).  Nothing is drawn when
\* the branch is not taken, and the draw raises when the range is empty: 0
\* stands in for the index there.
BatchIndices(evaluator, metricMode, dl) ==
    IF Visualizes(evaluator, metricMode) /\ NumBatches(dl) > 0
    THEN 0..(NumBatches(dl) - 1)
    ELSE {0}

\* The pass itertools.islice(data_loader, ...) starts; none without a draw.
SliceOrders(evaluator, metricMode, dl) ==
    IF Visualizes(evaluator, metricMode) /\ NumBatches(dl) > 0
    THEN IterationOrders(dl)
    ELSE {dl.dataset}

Predict ==
    /\ evalPc = "ready"
    /\ \E order \in IterationOrders(data_loader) :
        /\ evalArgs' = [op |-> "predict", predict_order |-> order]
        /\ evalResult' = [op |-> "predict"] @@ predict(self, data_loader, order)
    /\ evalPc' = "done"
    /\ UNCHANGED <<self, data_loader, cacheVars, sinkVars, mainVars>>

Evaluate ==
    /\ evalPc = "ready"
    /\ \E epoch \in Epochs, datasetSubset \in DatasetSubsets,
          metricMode \in MetricModes, average \in Averages,
          threshold \in Thresholds,
          predict_order \in IterationOrders(data_loader) :
       \E index \in BatchIndices(self, metricMode, data_loader),
          order \in SliceOrders(self, metricMode, data_loader) :
        LET rnd == [predict_order |-> predict_order, index |-> index,
                    order |-> order]
            out == evaluate(self, SinkEnv, data_loader, epoch, datasetSubset,
                            metricMode, average, threshold, rnd)
        IN  /\ evalArgs' = [op |-> "evaluate", epoch |-> epoch,
                            datasetSubset |-> datasetSubset,
                            metricMode |-> metricMode, average |-> average,
                            threshold |-> threshold, rnd |-> rnd,
                            env |-> SinkEnv]
            /\ evalResult' = [op |-> "evaluate"] @@ out
            /\ IF out.sinkCall # NoObject
               THEN SinkWritten(write_image_test_results(SinkEnv,
                                                         out.sinkCall[1]))
               ELSE UNCHANGED <<cacheVars, sinkVars>>
    /\ evalPc' = "done"
    /\ UNCHANGED <<self, data_loader, mainVars>>

InitEval ==
    /\ CacheEmpty
    /\ disk \in [DatasetPaths -> {Missing, <<"path", "cat", "dog">>}]
    /\ disk[get_dataset_path(other_config)] # Missing
    /\ SinkConstructed
    /\ self \in [config : {config.name},
                 tensorBoardWriter : {NoObject, Some("TensorBoardWriter")}]
    /\ data_loader \in DataLoaders
    /\ evalPc = "ready"
    /\ evalArgs = [op |-> None]
    /\ evalResult = [op |-> None, raised |-> None]
    /\ MainIdle

NextEval ==
    \/ Predict
    \/ Evaluate

SpecEval == InitEval /\ [][NextEval]_vars

(***************************************************************************)
(* The inference driver (inference.py).  File names are sequences of       *)
(* characters, paths are sequences of names.                               *)
(***************************************************************************)
\* str.lower() on the characters that occur in the names below
LowerChar(ch) ==
    CASE ch = "A" -> "a" [] ch = "B" -> "b" [] ch = "G" -> "g"
      [] ch = "H" -> "h" [] ch = "I" -> "i" [] ch = "J" -> "j"
      [] ch = "N" -> "n" [] ch = "P" -> "p" [] ch = "V" -> "v"
      [] OTHER -> ch

Lower(str) == [i \in DOMAIN str |-> LowerChar(str[i])]

\* str.endswith(suffix) and str.endswith(tuple of suffixes)
EndsWith(str, suffix) ==
    /\ Len(str) >= Len(suffix)
    /\ SubSeq(str, Len(str) - Len(suffix) + 1, Len(str)) = suffix

EndsWithAny(str, suffixes) == \E suffix \in suffixes : EndsWith(str, suffix)

ImageSuffixes ==
    {<<".", "p", "n", "g">>, <<".", "j", "p", "g">>, <<".", "j", "p", "e", "g">>}

VideoSuffixes ==
    {<<".", "m", "p", "4">>, <<".", "a", "v", "i">>, <<".", "m", "o", "v">>}

\* os.path.join(path, name), os.path.basename(path), str(path)
Join(path, name) == Append(path, name)
Basename(path) == path[Len(path)]

RECURSIVE PathStr(_)
PathStr(path) ==
    IF Len(path) = 1 THEN path[1]
    ELSE path[1] \o <<"/">> \o PathStr(Tail(path))

\* The file names that occur on disk.
FileNames ==
    {<<"a", ".", "j", "p", "g">>,
     <<"B", ".", "J", "P", "G">>,
     <<"c", ".", "P", "n", "g">>,
     <<"d", ".", "j", "p", "e", "g">>,
     <<"e", ".", "t", "x", "t">>,
     <<"j", "p", "g">>,
     <<"f", ".", "j", "p", "g", ".", "t", "x", "t">>,
     <<"g", ".", "m", "p", "4">>,
     <<"H", ".", "A", "V", "I">>,
     <<"i", ".", "m", "o", "v">>}

\* os.listdir: distinct names, in any order
Listings ==
    UNION {{l \in [1..n -> FileNames] : IsInjective(l)} : n \in 0..MaxEntries}

Inputs ==
    [kind : {"dir"}, name : {<<"p", "i", "c", "s">>}, listing : Listings]
    \cup [kind : {"file", "none"}, name : FileNames, listing : {<<>>}]

\* Path(args.input_path), and args.output_folder
input_path(inp) == <<<<"i", "n">>, inp.name>>
output_folder == <<<<"o", "u", "t">>>>

\* pathutils.get_model_to_load_path(config)
get_model_to_load_path(cfg) == cfg.model_to_load

(***************************************************************************)
(* ModelEvaluator.from_file(device, tensorBoardWriter, thisconfig).  Its   *)
(* first statement rebinds thisconfig to the module's config.              *)
(***************************************************************************)
NewEvaluator(cfg, tbw, epochs, path) ==
    [config |-> cfg.name,
     model |-> [name |-> cfg.model_name, num_classes |-> cfg.num_classes,
                weights |-> cfg.model_weights, loaded_from |-> path],
     criterion |-> "BCEWithLogitsLoss",
     num_classes |-> cfg.num_classes,
     tensorBoardWriter |-> tbw,
     epochs |-> epochs]

from_file_without_check(device, tbw, passedconfig, ckpts) ==
    LET thisconfig == config
        modelToLoadPath == get_model_to_load_path(thisconfig)
    IN  [raised |-> None, path |-> None,
         evaluator |-> Some(NewEvaluator(thisconfig, tbw, 0, modelToLoadPath))]

from_file(device, tbw, passedconfig, ckpts) ==
    LET thisconfig == config
        modelToLoadPath == get_model_to_load_path(thisconfig)
    IN  IF ckpts[modelToLoadPath] # NoObject
        THEN [raised |-> None, path |-> None,
              evaluator |-> Some(NewEvaluator(thisconfig, tbw,
                                     ckpts[modelToLoadPath][1],
                                     modelToLoadPath))]
        ELSE [raised |-> "ValueError", path |-> modelToLoadPath,
              evaluator |-> NoObject]

(***************************************************************************)
(* Calls on the evaluator.  ModelEvaluatorMethods gives, for each method   *)
(* the class defines, the least and the most positional arguments it       *)
(* takes after self.  A call of a name the class does not define raises    *)
(* AttributeError, a call with too few or too many arguments TypeError.    *)
(***************************************************************************)
ModelEvaluatorMethods ==
    [from_trainer |-> <<1, 1>>, from_file |-> <<1, 3>>, predict |-> <<1, 1>>,
     evaluate_old |-> <<3, 5>>, evaluate_predictions |-> <<6, 8>>,
     evaluate |-> <<3, 6>>]

CallMethod(name, nargs) ==
    IF name \notin DOMAIN ModelEvaluatorMethods THEN "AttributeError"
    ELSE IF nargs < ModelEvaluatorMethods[name][1]
            \/ nargs > ModelEvaluatorMethods[name][2] THEN "TypeError"
    ELSE None

\* What predict returns is a tuple: result['predictions'] raises TypeError.
SubscriptByName(kind) == IF kind = "tuple" THEN "TypeError" ELSE None

RouteOutcome(raised, batches, savedPaths) ==
    [raised |-> raised, batches |-> batches, saved |-> savedPaths]

\* modelEvaluator.predict(dataset_loader, False, 0.5) over n items, then
\* predictionResults['predictions'] (and the paths or frame counts).
BatchedPredict(n, savedPaths) ==
    LET batches == (n + config.batch_size - 1) \div config.batch_size
    IN  IF CallMethod("predict", 3) # None
        THEN RouteOutcome(CallMethod("predict", 3), 0, <<>>)
        ELSE IF batches = 0
        THEN RouteOutcome("ValueError", 0, <<>>)
        ELSE IF SubscriptByName("tuple") # None
        THEN RouteOutcome(SubscriptByName("tuple"), batches, <<>>)
        ELSE RouteOutcome(None, batches, savedPaths)

\* The image files of the directory, by their names.
image_paths_case_sensitive(dir, listing) ==
    LET kept == SelectSeq(listing, LAMBDA img : EndsWithAny(img, ImageSuffixes))
    IN  [i \in DOMAIN kept |-> Join(dir, kept[i])]

image_paths(dir, listing) ==
    LET kept == SelectSeq(listing,
                    LAMBDA img : EndsWithAny(Lower(img), ImageSuffixes))
    IN  [i \in DOMAIN kept |-> Join(dir, kept[i])]

\* if input_path.is_dir(): ...: one annotated image per prediction
RunDirectory(paths) ==
    BatchedPredict(Len(paths),
        [i \in DOMAIN paths |-> Join(output_folder, Basename(paths[i]))])

\* the image branch: modelEvaluator.single_image_prediction(img, 0.5)
RunImageFile(path) ==
    IF CallMethod("single_image_prediction", 2) # None
    THEN RouteOutcome(CallMethod("single_image_prediction", 2), 0, <<>>)
    ELSE RouteOutcome(None, 1, <<Join(output_folder, Basename(path))>>)

\* the video branch: batched predict over the sampled frames
RunVideoFile(path, frames) ==
    BatchedPredict(frames, <<Join(output_folder, Basename(path))>>)

\* The if / elif chain of main over the input path.
route_of_suffixes_without_dot(inp) ==
    LET str == Lower(PathStr(input_path(inp)))
        NoDot(suffixes) == {Tail(suffix) : suffix \in suffixes}
    IN  IF inp.kind = "dir" THEN "directory"
        ELSE IF inp.kind = "file"
        THEN IF EndsWithAny(str, NoDot(ImageSuffixes)) THEN "image"
             ELSE IF EndsWithAny(str, NoDot(VideoSuffixes)) THEN "video"
             ELSE "unsupported"
        ELSE "invalid"

route_of(inp) ==
    LET str == Lower(PathStr(input_path(inp)))
    IN  IF inp.kind = "dir" THEN "directory"
        ELSE IF inp.kind = "file"
        THEN IF EndsWithAny(str, ImageSuffixes) THEN "image"
             ELSE IF EndsWithAny(str, VideoSuffixes) THEN "video"
             ELSE "unsupported"
        ELSE "invalid"

\* The frames VideoDatasetPredict samples from a video at args.time_interval.
SampledFrames == 2

MainEnds(outcome) ==
    /\ mainPc' = IF outcome.raised # None THEN "raised" ELSE "returned"
    /\ mainError' = [type |-> outcome.raised, path |-> None]
    /\ batchesPredicted' = batchesPredicted + outcome.batches
    /\ saved' = saved \o outcome.saved

\* os.makedirs(output_folder, exist_ok=True)
Makedirs ==
    /\ mainPc = "start"
    /\ mainTrace' = Append(mainTrace, "makedirs")
    /\ IF outputFolder = "file"
       THEN /\ mainPc' = "raised"
            /\ mainError' = [type |-> "FileExistsError", path |-> None]
            /\ UNCHANGED outputFolder
       ELSE /\ mainPc' = "from_file"
            /\ outputFolder' = "dir"
            /\ UNCHANGED mainError
    /\ UNCHANGED <<input, checkpoints, modelEvaluator, adapterPaths,
                   batchesPredicted, saved, printed>>
    /\ UNCHANGED <<cacheVars, sinkVars, evalVars>>

\* modelEvaluator = ModelEvaluator.from_file(device, thisconfig=config)
FromFile ==
    /\ mainPc = "from_file"
    /\ mainTrace' = Append(mainTrace, "from_file")
    /\ LET r == from_file("cpu", NoObject, config, checkpoints)
       IN  /\ modelEvaluator' = r.evaluator
           /\ mainPc' = IF r.raised # None THEN "raised" ELSE "dispatch"
           /\ mainError' = [type |-> r.raised, path |-> r.path]
    /\ UNCHANGED <<input, checkpoints, outputFolder, adapterPaths,
                   batchesPredicted, saved, printed>>
    /\ UNCHANGED <<cacheVars, sinkVars, evalVars>>

MainDirectory ==
    /\ mainPc = "dispatch"
    /\ route_of(input) = "directory"
    /\ mainTrace' = Append(mainTrace, "directory")
    /\ adapterPaths' = Some(image_paths(input_path(input), input.listing))
    /\ MainEnds(RunDirectory(image_paths(input_path(input), input.listing)))
    /\ UNCHANGED <<input, checkpoints, outputFolder, modelEvaluator, printed>>
    /\ UNCHANGED <<cacheVars, sinkVars, evalVars>>

MainImageFile ==
    /\ mainPc = "dispatch"
    /\ route_of(input) = "image"
    /\ mainTrace' = Append(mainTrace, "image")
    /\ MainEnds(RunImageFile(input_path(input)))
    /\ UNCHANGED <<input, checkpoints, outputFolder, modelEvaluator,
                   adapterPaths, printed>>
    /\ UNCHANGED <<cacheVars, sinkVars, evalVars>>

MainVideoFile ==
    /\ mainPc = "dispatch"
    /\ route_of(input) = "video"
    /\ mainTrace' = Append(mainTrace, "video")
    /\ MainEnds(RunVideoFile(input_path(input), SampledFrames))
    /\ UNCHANGED <<input, checkpoints, outputFolder, modelEvaluator,
                   adapterPaths, printed>>
    /\ UNCHANGED <<cacheVars, sinkVars, evalVars>>

\* print(f"Unsupported file type for input: {input_path}")
MainUnsupported ==
    /\ mainPc = "dispatch"
    /\ route_of(input) = "unsupported"
    /\ mainTrace' = Append(mainTrace, "unsupported")
    /\ printed' = Append(printed, [text |-> "Unsupported file type for input",
                                   path |-> input_path(input)])
    /\ MainEnds(RouteOutcome(None, 0, <<>>))
    /\ UNCHANGED <<input, checkpoints, outputFolder, modelEvaluator,
                   adapterPaths>>
    /\ UNCHANGED <<cacheVars, sinkVars, evalVars>>

\* print(f"Invalid input path: {input_path}")
MainInvalid ==
    /\ mainPc = "dispatch"
    /\ route_of(input) = "invalid"
    /\ mainTrace' = Append(mainTrace, "invalid")
    /\ printed' = Append(printed, [text |-> "Invalid input path",
                                   path |-> input_path(input)])
    /\ MainEnds(RouteOutcome(None, 0, <<>>))
    /\ UNCHANGED <<input, checkpoints, outputFolder, modelEvaluator,
                   adapterPaths>>
    /\ UNCHANGED <<cacheVars, sinkVars, evalVars>>

InitMain ==
    /\ CacheEmpty
    /\ disk = [p \in DatasetPaths |-> <<"path", "cat", "dog">>]
    /\ SinkConstructed
    /\ EvalIdle
    /\ input \in Inputs
    /\ checkpoints \in [{config.model_to_load, other_config.model_to_load}
                          -> {NoObject, Some(5)}]
    /\ checkpoints[other_config.model_to_load] # NoObject
    /\ outputFolder \in {"absent", "dir", "file"}
    /\ mainPc = "start"
    /\ mainTrace = <<>>
    /\ modelEvaluator = NoObject
    /\ adapterPaths = NoObject
    /\ batchesPredicted = 0
    /\ saved = <<>>
    /\ printed = <<>>
    /\ mainError = [type |-> None, path |-> None]

NextMain ==
    \/ Makedirs
    \/ FromFile
    \/ MainDirectory
    \/ MainImageFile
    \/ MainVideoFile
    \/ MainUnsupported
    \/ MainInvalid

SpecMain == InitMain /\ [][NextMain]_vars

(***************************************************************************)
(* ModelEvaluator.from_file called directly, with any device, sink and     *)
(* configuration, on a file system where each configured checkpoint either *)
(* is absent or stores an epoch count.                                     *)
(***************************************************************************)
MaxEpochs == 3      \* largest epoch count stored in a checkpoint

Devices == {"cpu", "cuda"}

CheckpointFiles ==
    [{get_model_to_load_path(c) : c \in Configs}
        -> {NoObject} \cup {Some(e) : e \in 1..MaxEpochs}]

ConfigNamed(name) == CHOOSE c \in Configs : c.name = name

FromFileCall ==
    /\ evalPc = "ready"
    /\ \E device \in Devices, tbw \in {NoObject, Some("TensorBoardWriter")},
          thisconfig \in Configs :
        /\ evalArgs' = [op |-> "from_file", device |-> device,
                        tensorBoardWriter |-> tbw,
                        thisconfig |-> thisconfig.name]
        /\ evalResult' = [op |-> "from_file"]
                            @@ from_file(device, tbw, thisconfig, checkpoints)
    /\ evalPc' = "done"
    /\ UNCHANGED <<self, data_loader, cacheVars, sinkVars, mainVars>>

InitFromFile ==
    /\ CacheEmpty
    /\ disk = [p \in DatasetPaths |-> <<"path", "cat", "dog">>]
    /\ SinkConstructed
    /\ self = [config |-> config.name, tensorBoardWriter |-> NoObject]
    /\ data_loader = [dataset |-> <<>>, batch_size |-> 1, shuffle |-> FALSE]
    /\ evalPc = "ready"
    /\ evalArgs = [op |-> None]
    /\ evalResult = [op |-> None, raised |-> None]
    /\ input = [kind |-> "none", name |-> <<>>, listing |-> <<>>]
    /\ checkpoints \in CheckpointFiles
    /\ outputFolder = "absent"
    /\ mainPc = "idle"
    /\ mainTrace = <<>>
    /\ modelEvaluator = NoObject
    /\ adapterPaths = NoObject
    /\ batchesPredicted = 0
    /\ saved = <<>>
    /\ printed = <<>>
    /\ mainError = [type |-> None, path |-> None]

NextFromFile == FromFileCall

SpecFromFile == InitFromFile /\ [][NextFromFile]_vars

(***************************************************************************)
(* C1.  Over any sequence of calls to the three entry points, the label    *)
(* file is read from disk at most once, by the first call, which finds the *)
(* cache empty; every call works on the one cached table object (the same  *)
(* object identity), also when it is called with another configuration;   *)
(* and the global slot, once populated, never holds another value.         *)
(***************************************************************************)
C1_CacheReadAtMostOnce ==
    /\ Len(reads) <= 1
    /\ Cardinality(handedOut) <= 1
    /\ dataset_csv = NoObject => reads = <<>> /\ handedOut = {}
    /\ dataset_csv # NoObject =>
          /\ handedOut = {dataset_csv[1]}
          /\ reads = <<dataset_csv[1].path>>
          /\ dataset_csv[1].id = 1

\* A call with other_config has returned from the table read for config.
C1_Witness ==
    /\ dataset_csv # NoObject
    /\ dataset_csv[1].path = get_dataset_path(config)
    /\ cacheResult.raised = None
    /\ cacheResult.cfg = other_config.name
    /\ cacheResult.op = "get_data_loader_by_name"
    /\ cacheResult.value.table = dataset_csv[1].id

(***************************************************************************)
(* C2.  For a label table with columns [c0, c1, ..., cN],                  *)
(* get_dataset_tag_mappings returns a mapping whose key set is exactly     *)
(* {0, ..., N-1} (as many keys as the table has columns, less one) and     *)
(* which maps index i to column c(i+1): the path column is left out and    *)
(* the other names keep the file's order.                                  *)
(***************************************************************************)
C2_TagMapping ==
    (cacheResult.op = "get_dataset_tag_mappings" /\ cacheResult.raised = None)
    => LET cols == cacheResult.value.columns
           m == cacheResult.value.mapping
           \* c(k), for the 0-based column index k of the claim
           c(k) == cols[k + 1]
       IN  /\ cols = dataset_csv[1].columns
           /\ DOMAIN m = 0..(Len(cols) - 2)
           /\ Cardinality(DOMAIN m) = Len(cols) - 1
           /\ \A i \in DOMAIN m : m[i] = c(i + 1)

\* The mapping of a table with a path column and two label columns.
C2_Witness ==
    /\ cacheResult.op = "get_dataset_tag_mappings"
    /\ cacheResult.raised = None
    /\ Len(cacheResult.value.columns) = 3
    /\ cacheResult.value.mapping[1] = cacheResult.value.columns[3]

(***************************************************************************)
(* C4.  For every data source, predict returns a raw-score matrix and a    *)
(* true-label matrix that each have as many rows as the data source has    *)
(* samples, the rows in the order the pass visited the samples, so row i   *)
(* of the raw scores and row i of the true labels are of the same sample.  *)
(***************************************************************************)
C4_PredictRowsMatchSamples ==
    evalResult.op = "predict" =>
        /\ evalResult.raised = None
        /\ Len(evalResult.value.prediction_labels) = Len(data_loader.dataset)
        /\ Len(evalResult.value.true_labels) = Len(data_loader.dataset)
        /\ \A i \in 1..Len(data_loader.dataset) :
              /\ evalResult.value.prediction_labels[i]
                    = model(evalArgs.predict_order[i].image)
              /\ evalResult.value.true_labels[i]
                    = evalArgs.predict_order[i].label

\* The same statement for the data sources that hold at least one sample.
C4_HoldsOnNonEmptySources ==
    Len(data_loader.dataset) > 0 => C4_PredictRowsMatchSamples

(***************************************************************************)
(* C5.  The average loss predict returns equals the reduction-sum loss     *)
(* over all batches (the sum of the per-sample losses of every sample)     *)
(* divided by the number of samples of the data source, for every batch    *)
(* size and partition into batches, with the criterion from_file installs. *)
(***************************************************************************)
C5_AverageLossIsSumOverSamples ==
    (evalResult.op = "predict" /\ evalResult.raised = None) =>
        evalResult.value.avg_loss
            = Rat(Sum([i \in DOMAIN data_loader.dataset |->
                          SampleLoss(data_loader.dataset[i])]),
                  Len(data_loader.dataset))

\* The same with the per-sample loss read as what the installed criterion
\* gives for the sample alone (its mean over the classes).
C5_AverageOfCriterionPerSample ==
    (evalResult.op = "predict" /\ evalResult.raised = None) =>
        evalResult.value.avg_loss
            = RDiv(RSum([i \in DOMAIN data_loader.dataset |->
                            criterion(<<data_loader.dataset[i]>>)]),
                   Rat(Len(data_loader.dataset), 1))

(***************************************************************************)
(* C6.  evaluate returns (avg_loss, f1, precision, recall): avg_loss is    *)
(* the third result of predict on the data source, and (f1, precision,     *)
(* recall) is the result of evaluate_predictions called with predict's raw *)
(* scores and true labels and the same epoch, datasetSubset, average,      *)
(* metricMode and threshold, each in its own parameter; when either step   *)
(* raises, evaluate raises the same.                                       *)
(***************************************************************************)
C6_EvaluateIsComposition ==
    evalResult.op = "evaluate" =>
        LET a == evalArgs
            p == predict(self, data_loader, a.rnd.predict_order)
            ep == evaluate_predictions(self, a.env, data_loader,
                      p.value.prediction_labels, p.value.true_labels,
                      a.epoch, a.datasetSubset, a.average, a.metricMode,
                      a.threshold, a.rnd)
            m == compute_metrics(p.value.true_labels,
                     getpredictions_with_threshold(p.value.prediction_labels,
                                                   a.threshold),
                     a.threshold, a.average)
        IN  IF p.raised # None
            THEN evalResult.raised = p.raised
            ELSE /\ evalResult.raised = ep.raised
                 /\ evalResult.sinkCall = ep.sinkCall
                 /\ ep.raised = None =>
                       /\ evalResult.value
                             = <<p.value.avg_loss, ep.value[1], ep.value[2],
                                 ep.value[3]>>
                       /\ evalResult.value[2] = m.f1
                       /\ evalResult.value[3] = m.precision
                       /\ evalResult.value[4] = m.recall
                 /\ (evalResult.sinkCall # NoObject) =>
                       /\ evalResult.sinkCall[1].step = a.epoch
                       /\ evalResult.sinkCall[1].runmode = a.metricMode
                       /\ evalResult.sinkCall[1].dataSubset = a.datasetSubset

\* A full evaluation with macro averaging that also fed the sink, on a data
\* source where precision and recall differ.
C6_Witness ==
    /\ evalResult.op = "evaluate"
    /\ evalResult.raised = None
    /\ evalResult.sinkCall # NoObject
    /\ evalArgs.average = "macro"
    /\ evalArgs.metricMode = "Test"
    /\ Len(data_loader.dataset) >= 2
    /\ evalResult.value[3] # evalResult.value[4]

(***************************************************************************)
(* C7.  The sink's writer is open from construction and is closed exactly  *)
(* once: it stays open until the first close, leaving an evaluator's       *)
(* with-scope (normally or by an exception) leaves it closed when the      *)
(* evaluator holds the sink, and over any sequence of close_writer calls   *)
(* and scope exits the backend's close() is invoked at most once, a later  *)
(* close being a no-op because the handle is None.                         *)
(***************************************************************************)
C7_ClosedExactlyOnce ==
    /\ closeCalls <= 1
    /\ (writer = NoObject) <=> (closeCalls = 1)
    /\ backendOpen <=> (writer # NoObject)
    /\ (sinkResult.op = "__exit__"
        /\ tensorBoardWriter(sinkResult.evaluator) # NoObject)
       => (writer = NoObject /\ closeCalls = 1)
    /\ (sinkResult.op \in {"close_writer", "__exit__"} /\ sinkResult.noop)
       => (closeCalls = 1 \/ tensorBoardWriter(sinkResult.evaluator) = NoObject)

\* A scope left by an exception, its close a no-op after an earlier close.
C7_Witness ==
    /\ sinkResult.op = "__exit__"
    /\ sinkResult.exceptional
    /\ sinkResult.evaluator = "from_trainer"
    /\ sinkResult.noop
    /\ closeCalls = 1
    /\ writer = NoObject

(***************************************************************************)
(* What the claims about the driver speak of: the extension of a file      *)
(* name is what follows its last dot, compared in lower case.              *)
(***************************************************************************)
Range(seq) == {seq[i] : i \in DOMAIN seq}

HasDot(str) == \E i \in DOMAIN str : str[i] = "."

LastDot(str) ==
    CHOOSE i \in DOMAIN str :
        str[i] = "." /\ \A j \in DOMAIN str : j > i => str[j] # "."

Extension(str) ==
    IF HasDot(str) THEN Lower(SubSeq(str, LastDot(str) + 1, Len(str)))
    ELSE <<>>

ImageExtensions == {<<"p", "n", "g">>, <<"j", "p", "g">>, <<"j", "p", "e", "g">>}
VideoExtensions == {<<"m", "p", "4">>, <<"a", "v", "i">>, <<"m", "o", "v">>}

CheckpointExists == checkpoints[get_model_to_load_path(config)] # NoObject

MainEnded == mainPc \in {"returned", "raised"}

(***************************************************************************)
(* C3.  When the resolved checkpoint path does not exist, from_file raises *)
(* an error that names the missing path and returns no evaluator; in the   *)
(* driver no batch is then run through predict and no output media is      *)
(* written on any input route, because from_file is called before the      *)
(* input path is dispatched: no route is ever entered.                     *)
(***************************************************************************)
C3_MissingCheckpointStopsMain ==
    ~CheckpointExists =>
        /\ "from_file" \in Range(mainTrace) =>
              /\ mainPc = "raised"
              /\ mainError.type = "ValueError"
              /\ mainError.path = get_model_to_load_path(config)
        /\ modelEvaluator = NoObject
        /\ mainPc # "dispatch"
        /\ Range(mainTrace) \subseteq {"makedirs", "from_file"}
        /\ batchesPredicted = 0
        /\ saved = <<>>

\* from_file has raised for a directory input that holds an image.
C3_Witness ==
    /\ ~CheckpointExists
    /\ mainTrace = <<"makedirs", "from_file">>
    /\ mainPc = "raised"
    /\ mainError.type = "ValueError"
    /\ input.kind = "dir"
    /\ <<"a", ".", "j", "p", "g">> \in Range(input.listing)

(***************************************************************************)
(* C8.  For a directory input, the paths handed to the image dataset       *)
(* adapter are exactly the directory's entries whose extension is png, jpg *)
(* or jpeg in any letter case, each once; every other entry is ignored, so *)
(* a directory of one .jpg and one .txt hands over exactly one image.      *)
(***************************************************************************)
C8_DirectoryFilter ==
    "directory" \in Range(mainTrace) =>
        /\ adapterPaths # NoObject
        /\ LET allowed == {e \in Range(input.listing) :
                              Extension(e) \in ImageExtensions}
           IN  /\ Range(adapterPaths[1])
                     = {Join(input_path(input), e) : e \in allowed}
               /\ Len(adapterPaths[1]) = Cardinality(allowed)

\* The directory of one .jpg and one .txt.
C8_Witness ==
    /\ "directory" \in Range(mainTrace)
    /\ input.listing = <<<<"e", ".", "t", "x", "t">>, <<"a", ".", "j", "p", "g">>>>
    /\ adapterPaths
          = Some(<<Join(input_path(input), <<"a", ".", "j", "p", "g">>)>>)

(***************************************************************************)
(* C9.  Whether the input is one main reports and returns on: a file whose *)
(* extension is outside {png, jpg, jpeg, mp4, avi, mov}, or a path that is *)
(* neither an existing file nor an existing directory.                     *)
(***************************************************************************)
UnsupportedOrInvalid ==
    \/ input.kind = "none"
    \/ /\ input.kind = "file"
       /\ Extension(input.name) \notin ImageExtensions \cup VideoExtensions

ReportedAndReturned ==
    /\ mainPc = "returned"
    /\ printed = <<[text |-> IF input.kind = "file"
                             THEN "Unsupported file type for input"
                             ELSE "Invalid input path",
                    path |-> input_path(input)]>>
    /\ batchesPredicted = 0
    /\ saved = <<>>

\* C9 as claimed: for every invocation with such an input, main reports an
\* error to the user and returns normally without raising, having run no
\* prediction and written no output media.  (Stated for the invocations
\* whose output folder could be created, so that the file system is not
\* what makes main raise.)
C9_AsClaimed ==
    (MainEnded /\ UnsupportedOrInvalid /\ "from_file" \in Range(mainTrace))
        => ReportedAndReturned

\* C9 as amended: the same for every invocation in which from_file returns
\* an evaluator (the output folder could be created and the checkpoint
\* exists); otherwise main raises before it looks at the input path.
C9_ReportsWhenEvaluatorLoaded ==
    /\ (MainEnded /\ UnsupportedOrInvalid /\ modelEvaluator # NoObject)
          => ReportedAndReturned
    /\ (MainEnded /\ UnsupportedOrInvalid /\ modelEvaluator = NoObject)
          => (mainPc = "raised" /\ printed = <<>> /\ saved = <<>>)

\* main has returned after reporting an unsupported file type.
C9_Witness ==
    /\ mainPc = "returned"
    /\ input.kind = "file"
    /\ input.name = <<"e", ".", "t", "x", "t">>
    /\ Len(printed) = 1
    /\ modelEvaluator # NoObject

(***************************************************************************)
(* C10.  With an existing checkpoint, each supported input route runs to   *)
(* completion and ends with a save: a directory yields one annotated image *)
(* at {output_folder}/{original_filename} for each allowed image file, in  *)
(* order; an image file yields one annotated image at that path; a video   *)
(* file yields one annotated video at that path.                           *)
(***************************************************************************)
ExpectedSaved ==
    IF input.kind = "dir"
    THEN LET kept == SelectSeq(input.listing,
                         LAMBDA e : Extension(e) \in ImageExtensions)
         IN  [i \in DOMAIN kept |-> Join(output_folder, kept[i])]
    ELSE <<Join(output_folder, input.name)>>

C10_SupportedRoutesEndWithSave ==
    (MainEnded /\ CheckpointExists /\ modelEvaluator # NoObject
        /\ ~UnsupportedOrInvalid)
    => (mainPc = "returned" /\ saved = ExpectedSaved)

(***************************************************************************)
(* C11.  from_file binds the evaluator it returns to the configuration the *)
(* caller passes: whenever from_file returns an evaluator, the evaluator's *)
(* config, its model's architecture (name, class count, weights), the      *)
(* checkpoint it was loaded from and the epoch count are those of the      *)
(* configuration passed to that call.                                      *)
(***************************************************************************)
BoundTo(evaluator, cfg) ==
    /\ evaluator.config = cfg.name
    /\ evaluator.model.name = cfg.model_name
    /\ evaluator.model.num_classes = cfg.num_classes
    /\ evaluator.num_classes = cfg.num_classes
    /\ evaluator.model.weights = cfg.model_weights
    /\ evaluator.model.loaded_from = get_model_to_load_path(cfg)
    /\ checkpoints[get_model_to_load_path(cfg)] # NoObject
    /\ evaluator.epochs = checkpoints[get_model_to_load_path(cfg)][1]

C11_FromFileBindsPassedConfig ==
    (evalResult.op = "from_file" /\ evalResult.raised = None) =>
        BoundTo(evalResult.evaluator[1], ConfigNamed(evalArgs.thisconfig))

\* What the code does instead: the evaluator is always bound to the module's
\* own config, and the call fails exactly when that config's checkpoint is
\* absent, whatever configuration is passed.
C11_BindsModuleConfig ==
    evalResult.op = "from_file" =>
        IF checkpoints[get_model_to_load_path(config)] = NoObject
        THEN /\ evalResult.raised = "ValueError"
             /\ evalResult.path = get_model_to_load_path(config)
             /\ evalResult.evaluator = NoObject
        ELSE /\ evalResult.raised = None
             /\ BoundTo(evalResult.evaluator[1], config)
             /\ evalResult.evaluator[1].tensorBoardWriter
                   = evalArgs.tensorBoardWriter

(***************************************************************************)
(* C12.  When evaluate_predictions forwards a batch to the sink, the       *)
(* predictions it forwards are those of exactly the forwarded images, in   *)
(* the same order: one row per image of the batch, and row i is the        *)
(* binarized prediction computed for image i.                              *)
(***************************************************************************)
PredictionFor(image, threshold) ==
    getpredictions_with_threshold(<<model(image)>>, threshold)[1]

RowsMatchImages(call, threshold) ==
    /\ Len(call.predictions) = Len(call.images)
    /\ \A i \in DOMAIN call.images :
          call.predictions[i] = PredictionFor(call.images[i], threshold)

C12_ForwardedPredictionsMatchImages ==
    (evalResult.op = "evaluate" /\ evalResult.raised = None
        /\ evalResult.sinkCall # NoObject) =>
        RowsMatchImages(evalResult.sinkCall[1], evalArgs.threshold)

\* The rows do match on every source that is iterated in a fixed order,
\* also with a smaller last batch.
C12_HoldsWithoutShuffle ==
    (evalResult.op = "evaluate" /\ evalResult.raised = None
        /\ evalResult.sinkCall # NoObject /\ ~data_loader.shuffle) =>
        /\ RowsMatchImages(evalResult.sinkCall[1], evalArgs.threshold)
        /\ evalArgs.rnd.index \in 0..(NumBatches(data_loader) - 1)

(***************************************************************************)
(* C13.  No event is forwarded to the backend while the writer is closed:  *)
(* once the handle is null (after close_writer, called directly or by the  *)
(* scope exit of any evaluator that holds the sink), every step leaves the *)
(* backend's log as it is and the handle null, and every add_scalar,       *)
(* add_histogram, add_images, add_hparams and write_image_test_results     *)
(* call ends with an error.                                                *)
(***************************************************************************)
SinkWrites ==
    {"add_scalar", "add_histogram", "add_images", "add_hparams",
     "write_image_test_results"}

ClosedWriterStep ==
    writer = NoObject =>
        /\ writer' = NoObject
        /\ backendLog' = backendLog
        /\ backendOpen' = FALSE
        /\ closeCalls' = closeCalls
        /\ (sinkResult' # sinkResult /\ sinkResult'.op \in SinkWrites)
              => sinkResult'.raised # None

C13_NothingForwardedWhileClosed == [][ClosedWriterStep]_vars

\* Events were written, then the sink was closed by the scope exit of an
\* evaluator, and a later add failed on the null handle.
C13_Witness ==
    /\ writer = NoObject
    /\ closeCalls = 1
    /\ Len(backendLog) >= 1
    /\ sinkResult.op \in SinkWrites
    /\ sinkResult.raised = "AttributeError"

====
